---------------------------- MODULE Spec2Model ----------------------------
(***************************************************************************)
(* Model of src/src/main.rs: a character grid loaded from a text file, a  *)
(* breadth-first search between the 'i' and 'O' cells under toroidal      *)
(* 4-adjacency, and the overlay of the found path on the grid.            *)
(*                                                                         *)
(* Points are tuples <<x, y>> as in `type Point = (usize, usize)`.        *)
(* Vectors are functions over 0..n-1, so that indices are the source's.   *)
(* Option<T> is a sequence of length 0 (None) or 1 (Some(v)).             *)
(***************************************************************************)
EXTENDS Integers, Sequences, FiniteSets, TLC

VARIABLES
    entry,      \* which entry point runs: main, one of the tests, or a direct call
    pc,         \* position in the running entry point
    argsLen,    \* main: args.len(), program name included
    file,       \* main: [readable, content] of the file named by args[1]
    map,        \* Option<Map>: the Map { grid, width, height } once constructed
    loaded,     \* Option<Map>: the Map as it was constructed (history)
    start,      \* main: Option<Point> from find('i'); bfs: its start parameter
    end,        \* main: Option<Point> from find('O'); bfs: its end parameter
    visited,    \* bfs: visited[y][x]
    parent,     \* bfs: parent[y][x], an Option<Point>
    queue,      \* bfs: the VecDeque, front first
    cur,        \* bfs: the dequeued (x, y)
    di,         \* bfs: index of the next element of directions
    path,       \* bfs: the path being rebuilt (end first, until reversed)
    current,    \* bfs: the cell of the backward walk
    result,     \* Option<Option<Vec<Point>>>: what bfs returned, once it has
    mi,         \* mark_path: index of the next path element
    stdout,     \* Option<text>: what println! wrote
    exit,       \* Option<status>: the process exit status
    nx,         \* direct call of normalize: x
    ny,         \* direct call of normalize: y
    nret,       \* direct call of normalize: Option<(usize, usize)>
    order       \* bfs: every coordinate pushed on the queue, in push order (history)

vars == <<entry, pc, argsLen, file, map, loaded, start, end, visited, parent,
          queue, cur, di, path, current, result, mi, stdout, exit, nx, ny, nret,
          order>>

----------------------------------------------------------------------------
(* Bounds of the model *)

\* longest file content, in characters
MaxTextLen == 5
\* most cells (width * height) of a Map handed to a direct call of bfs
MaxCells == 9
\* most cells of a Map handed to a direct call of bfs in the runs that are
\* checked for termination
MaxFairCells == 8
\* direct calls of normalize take x, y in -MaxOffset..MaxOffset
MaxOffset == 7
\* largest width and height of a Map handed to a direct call of normalize
MaxDim == 3
\* largest args.len() tried
MaxArgs == 3

----------------------------------------------------------------------------
(* Values *)

None == <<>>
Some(v) == <<v>>
unwrap(o) == o[1]

\* 'e_acute' stands for a character that takes two bytes in UTF-8
Alphabet == {"#", " ", "i", "O", "\n", "e_acute"}

\* the number of bytes of a character, which is what str::len counts
len_utf8(ch) == IF ch = "e_acute" THEN 2 ELSE 1

\* "abc".chars().collect::<Vec<char>>()
chars(s) == [x \in 0..(Len(s) - 1) |-> s[x + 1]]

RECURSIVE TextsOfLen(_)
TextsOfLen(n) ==
    IF n = 0 THEN {<<>>}
    ELSE {Append(t, c) : t \in TextsOfLen(n - 1), c \in Alphabet}

Texts == UNION {TextsOfLen(n) : n \in 0..MaxTextLen}

----------------------------------------------------------------------------
(* Map *)

\* str::lines: split at each "\n"; the final line ending is optional
RECURSIVE lines(_)
lines(content) ==
    IF content = <<>> THEN <<>>
    ELSE LET nl == {k \in 1..Len(content) : content[k] = "\n"}
         IN  IF nl = {} THEN <<content>>
             ELSE LET k == CHOOSE j \in nl : \A j2 \in nl : j <= j2
                  IN  <<SubSeq(content, 1, k - 1)>>
                        \o lines(SubSeq(content, k + 1, Len(content)))

\* str::len: the length of a line in bytes
RECURSIVE str_len(_)
str_len(l) == IF l = <<>> THEN 0 ELSE len_utf8(Head(l)) + str_len(Tail(l))

\* iter().max().unwrap_or(0)
max_or_0(S) == IF S = {} THEN 0 ELSE CHOOSE m \in S : \A n \in S : n <= m

\* Map::from_file on a file f = [readable, content]: Ok(Map) or Err
from_file(f) ==
    IF ~f.readable THEN [ok |-> FALSE, err |-> "Failed to read file"]
    ELSE LET ls == lines(f.content)
         IN  IF ls = <<>> THEN [ok |-> FALSE, err |-> "File is empty"]
             ELSE LET height == Len(ls)
                      width  == max_or_0({str_len(ls[k]) : k \in 1..Len(ls)})
                      grid   == [y \in 0..(height - 1) |->
                                   [x \in 0..(width - 1) |->
                                      IF x < Len(ls[y + 1]) THEN ls[y + 1][x + 1]
                                      ELSE " "]]
                  IN  [ok |-> TRUE,
                       map |-> [grid |-> grid, width |-> width, height |-> height]]

\* Map::get
get(self, x, y) == self.grid[y][x]

\* set with the two indices exchanged
set_transposed(self, x, y, value) ==
    [self EXCEPT !.grid = [self.grid EXCEPT ![x] = [self.grid[x] EXCEPT ![y] = value]]]

\* Map::set
set(self, x, y, value) ==
    [self EXCEPT !.grid = [self.grid EXCEPT ![y] = [self.grid[y] EXCEPT ![x] = value]]]

\* find with the loops exchanged: columns left to right, rows top to bottom
RECURSIVE find_by_column(_, _, _, _)
find_by_column(self, target, x, y) ==
    IF x >= self.width THEN None
    ELSE IF y >= self.height THEN find_by_column(self, target, x + 1, 0)
    ELSE IF self.grid[y][x] = target THEN Some(<<x, y>>)
    ELSE find_by_column(self, target, x, y + 1)

\* Map::find: rows top to bottom, columns left to right, first match returns
RECURSIVE find_from(_, _, _, _)
find_from(self, target, x, y) ==
    IF y >= self.height THEN None
    ELSE IF x >= self.width THEN find_from(self, target, 0, y + 1)
    ELSE IF self.grid[y][x] = target THEN Some(<<x, y>>)
    ELSE find_from(self, target, x + 1, y)

find(self, target) == find_from(self, target, 0, 0)

\* Rust's % on isize for a positive divisor: the remainder has the sign of a
rem(a, b) == IF a >= 0 THEN a % b ELSE -((-a) % b)

\* normalize with the edges clamped instead of wrapped
normalize_clamped(self, x, y) ==
    LET clamp(v, n) == IF v < 0 THEN 0 ELSE IF v >= n THEN n - 1 ELSE v
    IN  <<clamp(x, self.width), clamp(y, self.height)>>

\* normalize with Rust's % taken once, so that a negative x stays negative
normalize_truncated(self, x, y) ==
    <<rem(x, self.width), rem(y, self.height)>>

\* normalize with x wrapped and y held at the top and bottom rows
normalize_x_only(self, x, y) ==
    <<rem(rem(x, self.width) + self.width, self.width),
      IF y < 0 THEN 0 ELSE IF y >= self.height THEN self.height - 1 ELSE y>>

\* Map::normalize
normalize(self, x, y) ==
    LET x_norm == rem(rem(x, self.width) + self.width, self.width)
        y_norm == rem(rem(y, self.height) + self.height, self.height)
    IN  <<x_norm, y_norm>>

\* directions with right tried before down
directions_right_first == <<<<1, 0>>, <<0, 1>>, <<0, -1>>, <<-1, 0>>>>

\* the directions array of bfs, as (dx, dy)
directions == <<<<0, 1>>, <<1, 0>>, <<0, -1>>, <<-1, 0>>>>

\* a row as a string with its trailing blanks trimmed
RECURSIVE trim_end(_)
trim_end(str) ==
    IF str # <<>> /\ str[Len(str)] = " " THEN trim_end(SubSeq(str, 1, Len(str) - 1))
    ELSE str

row_string_trimmed(row) == trim_end([k \in 1..Cardinality(DOMAIN row) |-> row[k - 1]])

\* row.iter().collect::<String>()
row_string(row) == [k \in 1..Cardinality(DOMAIN row) |-> row[k - 1]]

\* Vec<String>::join(sep)
RECURSIVE join(_, _)
join(strs, sep) ==
    IF strs = <<>> THEN <<>>
    ELSE IF Len(strs) = 1 THEN strs[1]
    ELSE strs[1] \o sep \o join(Tail(strs), sep)

\* to_string with the rows joined by nothing
to_string_unseparated(self) ==
    join([k \in 1..Cardinality(DOMAIN self.grid) |-> row_string(self.grid[k - 1])],
         <<>>)

\* Map::to_string: every row of grid as a string, joined by "\n"
to_string(self) ==
    join([k \in 1..Cardinality(DOMAIN self.grid) |-> row_string(self.grid[k - 1])],
         <<"\n">>)

\* VecDeque::push_front, which would make the queue a stack
push_front(q, v) == <<v>> \o q

\* VecDeque::push_back
push_back(q, v) == Append(q, v)

\* VecDeque::pop_front: the front element, and the queue that is left
front(q) == Head(q)
popped(q) == Tail(q)

\* a reverse that leaves the vector as it is
reverse_skipped(v) == v

\* Vec::reverse
reverse(v) == [k \in 1..Len(v) |-> v[Len(v) + 1 - k]]

----------------------------------------------------------------------------
(* The maps built by the tests *)

\* tests::create_test_map
create_test_map ==
    LET grid == [y \in 0..3 |-> chars(<<
                    <<"#", "#", " ", " ", " ", " ", "#">>,
                    <<"#", " ", " ", "#", "i", " ", "#">>,
                    <<"#", " ", " ", "O", "#", "#", " ">>,
                    <<" ", " ", " ", "#", " ", " ", " ">> >>[y + 1])]
    IN  [grid |-> grid,
         width |-> Cardinality(DOMAIN grid[0]),
         height |-> Cardinality(DOMAIN grid)]

\* the Map of tests::test_no_path: rows 2, 3 and 4 hold eight characters
test_no_path_map ==
    [grid |-> [y \in 0..6 |-> chars(<<
                    <<"#", "#", "#", "#", "#", "#", "#">>,
                    <<"#", "i", " ", " ", " ", " ", "#">>,
                    <<"#", " ", "#", "#", "#", "#", " ", "#">>,
                    <<"#", " ", "#", " ", " ", "#", " ", "#">>,
                    <<"#", " ", "#", "#", "#", "#", " ", "#">>,
                    <<"#", " ", " ", " ", " ", "O", "#">>,
                    <<"#", "#", "#", "#", "#", "#", "#">> >>[y + 1])],
     width |-> 7,
     height |-> 7]

\* the Map of tests::test_toroidal_path
test_toroidal_path_map ==
    [grid |-> [y \in 0..2 |-> chars(<<
                    <<"#", "#", " ", " ", " ", "#", "#">>,
                    <<"i", " ", " ", " ", " ", " ", "O">>,
                    <<"#", "#", " ", " ", " ", "#", "#">> >>[y + 1])],
     width |-> 7,
     height |-> 3]

----------------------------------------------------------------------------
(* Initial states *)

Self == unwrap(map)

Idle ==
    /\ visited = <<>> /\ parent = <<>> /\ queue = <<>>
    /\ cur = None /\ di = 0 /\ path = <<>> /\ current = None
    /\ result = None /\ mi = 0 /\ stdout = None /\ exit = None
    /\ order = <<>>

NoFile == [readable |-> FALSE, content |-> <<>>]

Files == {NoFile} \cup {[readable |-> TRUE, content |-> t] : t \in Texts}

\* main is started with any argument count on any file; args[0], the program
\* name, is always there, so args.len() is at least 1
InitMain ==
    /\ entry = "main" /\ pc = "main"
    /\ argsLen \in 1..MaxArgs
    /\ file \in Files
    /\ map = None /\ loaded = None
    /\ start = None /\ end = None
    /\ nx = 0 /\ ny = 0 /\ nret = None
    /\ Idle

\* tests::test_mark_path calls bfs((4, 1), (3, 2)) on create_test_map();
\* tests::test_no_path and tests::test_toroidal_path call find first
InitTests ==
    /\ argsLen = 1 /\ file = NoFile
    /\ nx = 0 /\ ny = 0 /\ nret = None
    /\ Idle
    /\ \/ /\ entry = "test_mark_path" /\ pc = "bfs"
          /\ map = Some(create_test_map)
          /\ start = Some(<<4, 1>>) /\ end = Some(<<3, 2>>)
       \/ /\ entry = "test_no_path" /\ pc = "find"
          /\ map = Some(test_no_path_map)
          /\ start = None /\ end = None
       \/ /\ entry = "test_toroidal_path" /\ pc = "find"
          /\ map = Some(test_toroidal_path_map)
          /\ start = None /\ end = None
    /\ loaded = map

Init == InitMain \/ InitTests

\* the Maps of width w and height h whose cells are walls or blanks
MapsOf(w, h) ==
    {[grid |-> g, width |-> w, height |-> h] :
        g \in [0..(h - 1) -> [0..(w - 1) -> {"#", " "}]]}

Passable(self) ==
    {p \in (0..(self.width - 1)) \X (0..(self.height - 1)) : get(self, p[1], p[2]) # "#"}

\* bfs called on any Map of at most n cells with any passable start and end,
\* start = end included
InitBfsOf(n) ==
    /\ entry = "bfs" /\ pc = "bfs"
    /\ argsLen = 1 /\ file = NoFile
    /\ \E w \in 1..n, h \in 1..n :
          /\ w * h <= n
          /\ \E m \in MapsOf(w, h) :
                /\ map = Some(m)
                /\ \E s \in Passable(m), e \in Passable(m) :
                      start = Some(s) /\ end = Some(e)
    /\ loaded = map
    /\ nx = 0 /\ ny = 0 /\ nret = None
    /\ Idle

InitBfs == InitBfsOf(MaxCells)

InitBfsFair == InitBfsOf(MaxFairCells)

\* normalize called with any small x and y on a Map of any small size
InitNormalize ==
    /\ entry = "normalize" /\ pc = "call"
    /\ argsLen = 1 /\ file = NoFile
    /\ \E w \in 1..MaxDim, h \in 1..MaxDim :
          map = Some([grid |-> [y \in 0..(h - 1) |-> [x \in 0..(w - 1) |-> " "]],
                      width |-> w, height |-> h])
    /\ loaded = map
    /\ start = None /\ end = None
    /\ nx \in (-MaxOffset)..MaxOffset /\ ny \in (-MaxOffset)..MaxOffset
    /\ nret = None
    /\ Idle

----------------------------------------------------------------------------
(* main *)

\* main_usage with the test `args.len() < 2`, which lets extra arguments pass
main_usage_too_few ==
    /\ pc = "main"
    /\ IF argsLen < 2
       THEN pc' = "exited" /\ exit' = Some(1) /\ UNCHANGED <<map, loaded>>
       ELSE /\ argsLen # 2
            /\ from_file(file).ok
            /\ map' = Some(from_file(file).map) /\ loaded' = map'
            /\ pc' = "find" /\ exit' = exit
    /\ UNCHANGED <<order, entry, argsLen, file, start, end, visited, parent,
                   queue, cur, di, path, current, result, mi, stdout, nx, ny, nret>>

\* main, lines 120-123: a wrong argument count prints the usage and exits 1
main_usage ==
    /\ pc = "main" /\ argsLen # 2
    /\ pc' = "exited" /\ exit' = Some(1)
    /\ UNCHANGED <<order, entry, argsLen, file, map, loaded, start, end, visited, parent,
                   queue, cur, di, path, current, result, mi, stdout, nx, ny, nret>>

\* main, lines 127-133, Err arm: from_file failed, exit 1
main_load_err ==
    /\ pc = "main" /\ argsLen = 2
    /\ ~from_file(file).ok
    /\ pc' = "exited" /\ exit' = Some(1)
    /\ UNCHANGED <<order, entry, argsLen, file, map, loaded, start, end, visited, parent,
                   queue, cur, di, path, current, result, mi, stdout, nx, ny, nret>>

\* main, lines 127-133, Ok arm: the Map is bound
main_load_ok ==
    /\ pc = "main" /\ argsLen = 2
    /\ from_file(file).ok
    /\ map' = Some(from_file(file).map)
    /\ loaded' = map'
    /\ pc' = "find"
    /\ UNCHANGED <<order, entry, argsLen, file, start, end, visited, parent,
                   queue, cur, di, path, current, result, mi, stdout, exit, nx, ny, nret>>

\* main, lines 135-138, and the tests' find('i').unwrap(), find('O').unwrap()
locate ==
    /\ pc = "find"
    /\ start' = find(Self, "i")
    /\ end' = find(Self, "O")
    /\ IF start' # None /\ end' # None
       THEN pc' = "bfs" /\ exit' = exit
       ELSE IF entry = "main"
       THEN pc' = "print" /\ exit' = exit
       ELSE pc' = "panicked" /\ exit' = Some(101)
    /\ UNCHANGED <<order, entry, argsLen, file, map, loaded, visited, parent,
                   queue, cur, di, path, current, result, mi, stdout, nx, ny, nret>>

----------------------------------------------------------------------------
(* Map::bfs *)

bfs_start == unwrap(start)
bfs_end == unwrap(end)

\* a visited flag that is never set
mark_visited_skipped(v, x, y) == v

\* lines 68 and 91: visited[y][x] = true
mark_visited(v, x, y) == [v EXCEPT ![y][x] = TRUE]

\* lines 64-71: visited, parent and queue are set up, start is marked and queued
bfs_init ==
    /\ pc = "bfs"
    /\ visited' = mark_visited(
                     [y \in 0..(Self.height - 1) |-> [x \in 0..(Self.width - 1) |-> FALSE]],
                     bfs_start[1], bfs_start[2])
    /\ parent' = [y \in 0..(Self.height - 1) |-> [x \in 0..(Self.width - 1) |-> None]]
    /\ queue' = push_back(<<>>, bfs_start)
    /\ order' = <<bfs_start>>
    /\ pc' = "bfs_loop"
    /\ UNCHANGED <<entry, argsLen, file, map, loaded, start, end,
                   cur, di, path, current, result, mi, stdout, exit, nx, ny, nret>>

\* lines 73 and 97: pop_front finds the queue empty, bfs returns None
bfs_exhausted ==
    /\ pc = "bfs_loop" /\ queue = <<>>
    /\ result' = Some(None)
    /\ pc' = "bfs_ret"
    /\ UNCHANGED <<order, entry, argsLen, file, map, loaded, start, end, visited, parent,
                   queue, cur, di, path, current, mi, stdout, exit, nx, ny, nret>>

\* lines 73-76: the dequeued cell is end, the backward walk starts
bfs_pop_end ==
    /\ pc = "bfs_loop" /\ queue # <<>>
    /\ front(queue) = bfs_end
    /\ cur' = Some(front(queue))
    /\ queue' = popped(queue)
    /\ path' = <<>>
    /\ current' = Some(bfs_end)
    /\ pc' = "bfs_walk"
    /\ UNCHANGED <<order, entry, argsLen, file, map, loaded, start, end, visited, parent,
                   di, result, mi, stdout, exit, nx, ny, nret>>

\* lines 73-74 and 85: the dequeued cell is not end, its neighbours are next
bfs_pop_expand ==
    /\ pc = "bfs_loop" /\ queue # <<>>
    /\ front(queue) # bfs_end
    /\ cur' = Some(front(queue))
    /\ queue' = popped(queue)
    /\ di' = 0
    /\ pc' = "bfs_dirs"
    /\ UNCHANGED <<order, entry, argsLen, file, map, loaded, start, end, visited, parent,
                   path, current, result, mi, stdout, exit, nx, ny, nret>>

\* lines 85-95: one pass of the loop over directions
bfs_neighbor ==
    /\ pc = "bfs_dirs"
    /\ LET x == unwrap(cur)[1]
           y == unwrap(cur)[2]
           dx == directions[di + 1][1]
           dy == directions[di + 1][2]
           n == normalize(Self, x + dx, y + dy)
           nx_norm == n[1]
           ny_norm == n[2]
       IN  IF get(Self, nx_norm, ny_norm) # "#" /\ ~visited[ny_norm][nx_norm]
           THEN /\ visited' = mark_visited(visited, nx_norm, ny_norm)
                /\ parent' = [parent EXCEPT ![ny_norm][nx_norm] = Some(<<x, y>>)]
                /\ queue' = push_back(queue, <<nx_norm, ny_norm>>)
                /\ order' = Append(order, <<nx_norm, ny_norm>>)
           ELSE UNCHANGED <<visited, parent, queue, order>>
    /\ di' = di + 1
    /\ pc' = IF di + 1 = Len(directions) THEN "bfs_loop" ELSE "bfs_dirs"
    /\ UNCHANGED <<entry, argsLen, file, map, loaded, start, end,
                   cur, path, current, result, mi, stdout, exit, nx, ny, nret>>

\* lines 77-80: one step of the walk over parent links; unwrap panics on None
bfs_walk ==
    /\ pc = "bfs_walk"
    /\ unwrap(current) # bfs_start
    /\ path' = Append(path, unwrap(current))
    /\ LET p == parent[unwrap(current)[2]][unwrap(current)[1]]
       IN  IF p = None
           THEN pc' = "panicked" /\ exit' = Some(101) /\ current' = current
           ELSE pc' = pc /\ exit' = exit /\ current' = p
    /\ UNCHANGED <<order, entry, argsLen, file, map, loaded, start, end, visited, parent,
                   queue, cur, di, result, mi, stdout, nx, ny, nret>>

\* bfs_return with an empty path reported as None
bfs_return_empty_is_none ==
    /\ pc = "bfs_walk"
    /\ unwrap(current) = bfs_start
    /\ path' = reverse(path)
    /\ result' = IF path' = <<>> THEN Some(None) ELSE Some(Some(path'))
    /\ pc' = "bfs_ret"
    /\ UNCHANGED <<order, entry, argsLen, file, map, loaded, start, end, visited, parent,
                   queue, cur, di, current, mi, stdout, exit, nx, ny, nret>>

\* lines 77 and 81-82: the walk has reached start, the reversed path is returned
bfs_return ==
    /\ pc = "bfs_walk"
    /\ unwrap(current) = bfs_start
    /\ path' = reverse(path)
    /\ result' = Some(Some(path'))
    /\ pc' = "bfs_ret"
    /\ UNCHANGED <<order, entry, argsLen, file, map, loaded, start, end, visited, parent,
                   queue, cur, di, current, mi, stdout, exit, nx, ny, nret>>

bfs ==
    \/ bfs_init
    \/ bfs_exhausted
    \/ bfs_pop_end
    \/ bfs_pop_expand
    \/ bfs_neighbor
    \/ bfs_walk
    \/ bfs_return

----------------------------------------------------------------------------
(* The callers of bfs, and Map::mark_path *)

\* what bfs returned
returned == unwrap(result)

\* main, line 139: `if let Some(path)`; test_mark_path, line 189: unwrap();
\* test_no_path and test_toroidal_path end with their assertion on the result;
\* a direct call hands a path that was found to mark_path, as main does
bfs_caller ==
    /\ pc = "bfs_ret"
    /\ entry \in {"main", "test_mark_path", "test_no_path", "test_toroidal_path", "bfs"}
    /\ IF entry \in {"test_no_path", "test_toroidal_path"}
       THEN pc' = "done" /\ exit' = exit
       ELSE IF returned # None
       THEN pc' = "mark" /\ exit' = exit
       ELSE IF entry = "main"
       THEN pc' = "print" /\ exit' = exit
       ELSE IF entry = "bfs"
       THEN pc' = "done" /\ exit' = exit
       ELSE pc' = "panicked" /\ exit' = Some(101)
    /\ mi' = 0
    /\ UNCHANGED <<order, entry, argsLen, file, map, loaded, start, end, visited, parent,
                   queue, cur, di, path, current, result, stdout, nx, ny, nret>>

\* the path handed to mark_path
marked_path == unwrap(returned)

\* mark_path without its test for the two markers
mark_cell_unguarded(self, x, y) == set(self, x, y, ".")

\* mark_path, lines 102-104, on one (x, y)
mark_cell(self, x, y) ==
    IF get(self, x, y) # "i" /\ get(self, x, y) # "O"
    THEN set(self, x, y, ".")
    ELSE self

\* mark_path, lines 101-105: one pass of the loop over path
mark_path_step ==
    /\ pc = "mark"
    /\ mi < Len(marked_path)
    /\ map' = Some(mark_cell(Self, marked_path[mi + 1][1], marked_path[mi + 1][2]))
    /\ mi' = mi + 1
    /\ UNCHANGED <<order, entry, pc, argsLen, file, loaded, start, end, visited, parent,
                   queue, cur, di, path, current, result, stdout, exit, nx, ny, nret>>

\* mark_path returns: main goes on to print, test_mark_path to its assertions
mark_path_return ==
    /\ pc = "mark"
    /\ mi = Len(marked_path)
    /\ pc' = IF entry = "main" THEN "print" ELSE "done"
    /\ UNCHANGED <<order, entry, argsLen, file, map, loaded, start, end, visited, parent,
                   queue, cur, di, path, current, result, mi, stdout, exit, nx, ny, nret>>

\* main, line 144: println! of to_string, then main returns
print ==
    /\ pc = "print"
    /\ stdout' = Some(to_string(Self) \o <<"\n">>)
    /\ exit' = Some(0)
    /\ pc' = "exited"
    /\ UNCHANGED <<order, entry, argsLen, file, map, loaded, start, end, visited, parent,
                   queue, cur, di, path, current, result, mi, nx, ny, nret>>

\* a direct call of normalize, as in tests::test_normalize
call_normalize ==
    /\ pc = "call" /\ entry = "normalize"
    /\ nret' = Some(normalize(Self, nx, ny))
    /\ pc' = "returned"
    /\ UNCHANGED <<order, entry, argsLen, file, map, loaded, start, end, visited, parent,
                   queue, cur, di, path, current, result, mi, stdout, exit, nx, ny>>

----------------------------------------------------------------------------
(* Specifications *)

Next ==
    \/ main_usage
    \/ main_load_err
    \/ main_load_ok
    \/ locate
    \/ bfs
    \/ bfs_caller
    \/ mark_path_step
    \/ mark_path_return
    \/ print

\* main and the tests
Spec == Init /\ [][Next]_vars

NextBfs ==
    \/ bfs
    \/ bfs_caller
    \/ mark_path_step
    \/ mark_path_return

\* bfs, and mark_path on the path it returns, on every small Map and every
\* passable start and end
SpecBfs == InitBfs /\ [][NextBfs]_vars

\* the runs of SpecBfs on Maps of at most MaxFairCells cells, never stopping
\* while a step is possible: the program is one thread that runs every loop
\* to its end
SpecBfsFair == InitBfsFair /\ [][NextBfs]_vars /\ WF_vars(NextBfs)

\* normalize alone
SpecNormalize == InitNormalize /\ [][call_normalize]_vars

----------------------------------------------------------------------------
(* The grid as a graph, defined without normalize and without the queue *)

\* the cells of a Map
Cells(self) == (0..(self.width - 1)) \X (0..(self.height - 1))

\* the four toroidal neighbours of p
Neighbours(self, p) ==
    {<<(p[1] + 1) % self.width, p[2]>>,
     <<(p[1] + self.width - 1) % self.width, p[2]>>,
     <<p[1], (p[2] + 1) % self.height>>,
     <<p[1], (p[2] + self.height - 1) % self.height>>}

IsWall(self, p) == self.grid[p[2]][p[1]] = "#"

\* the distance from the cells of `frontier`, which are d steps from the
\* origin, to `target`, stepping onto cells that are no wall: Some(d) or None
RECURSIVE DistanceFrom(_, _, _, _, _)
DistanceFrom(self, frontier, seen, target, d) ==
    IF target \in frontier THEN Some(d)
    ELSE LET next == {q \in UNION {Neighbours(self, p) : p \in frontier} :
                         ~IsWall(self, q) /\ q \notin seen}
         IN  IF next = {} THEN None
             ELSE DistanceFrom(self, next, seen \cup next, target, d + 1)

GraphDistance(self, s, e) == DistanceFrom(self, {s}, {s}, e, 0)

\* a step from a to b that leaves the grid on one edge and re-enters on the other
IsWrapStep(self, a, b) ==
    \/ a[2] = b[2] /\ self.width >= 3 /\ {a[1], b[1]} = {0, self.width - 1}
    \/ a[1] = b[1] /\ self.height >= 3 /\ {a[2], b[2]} = {0, self.height - 1}

BfsReturned == pc = "bfs_ret"

----------------------------------------------------------------------------
(* C1 *)

\* C1: when end is reachable from start, bfs returns a path whose number of
\* coordinates is the graph distance from start to end under toroidal
\* 4-adjacency over the cells that are no wall.
C1_PathLengthIsDistance ==
    (BfsReturned /\ GraphDistance(Self, bfs_start, bfs_end) # None)
        => /\ returned # None
           /\ Len(unwrap(returned)) = unwrap(GraphDistance(Self, bfs_start, bfs_end))

\* bfs has returned a path of three or more steps, one of them over an edge
C1_Witness ==
    /\ BfsReturned /\ returned # None
    /\ Len(unwrap(returned)) >= 3
    /\ \E k \in 1..(Len(unwrap(returned)) - 1) :
          IsWrapStep(Self, unwrap(returned)[k], unwrap(returned)[k + 1])

----------------------------------------------------------------------------
(* C2 *)

\* every toroidal neighbour of p is a wall
Enclosed(self, p) == \A q \in Neighbours(self, p) : IsWall(self, q)

\* C2: bfs returns None exactly when end is not reachable from start over
\* cells that are no wall; in particular it returns None when start # end and
\* every neighbour of start, or every neighbour of end, is a wall.
C2_NoPathIffUnreachable ==
    BfsReturned
        => /\ (returned = None) <=> (GraphDistance(Self, bfs_start, bfs_end) = None)
           /\ (bfs_start # bfs_end
                 /\ (Enclosed(Self, bfs_start) \/ Enclosed(Self, bfs_end)))
                => returned = None

\* bfs has returned None for an end whose neighbours are all walls, on a grid
\* where start has a way out
C2_Witness ==
    /\ BfsReturned /\ returned = None
    /\ bfs_start # bfs_end
    /\ Enclosed(Self, bfs_end)
    /\ ~Enclosed(Self, bfs_start)

----------------------------------------------------------------------------
(* C3 *)

\* C3: on the Map of test_no_path, bfs(find('i'), find('O')) returns None.
C3_NoPathFixture ==
    (entry = "test_no_path" /\ pc = "done") => returned = None

----------------------------------------------------------------------------
(* C4 *)

\* one step in one axis, the other axis unchanged, both modulo the size
IsToroidalStep(self, a, b) ==
    \/ /\ a[2] = b[2]
       /\ \/ (a[1] + 1) % self.width = b[1]
          \/ (b[1] + 1) % self.width = a[1]
    \/ /\ a[1] = b[1]
       /\ \/ (a[2] + 1) % self.height = b[2]
          \/ (b[2] + 1) % self.height = a[2]

\* C4: a path returned for start # end does not contain start, ends with end,
\* begins with a toroidal neighbour of start, steps from each coordinate to a
\* toroidal neighbour, holds no wall and holds no coordinate twice.
C4_PathShape ==
    (BfsReturned /\ returned # None /\ bfs_start # bfs_end)
        => LET p == unwrap(returned)
           IN  /\ Len(p) >= 1
               /\ \A k \in 1..Len(p) : p[k] # bfs_start
               /\ p[Len(p)] = bfs_end
               /\ IsToroidalStep(Self, bfs_start, p[1])
               /\ \A k \in 1..(Len(p) - 1) : IsToroidalStep(Self, p[k], p[k + 1])
               /\ \A k \in 1..Len(p) : p[k] \in Cells(Self) /\ ~IsWall(Self, p[k])
               /\ \A j, k \in 1..Len(p) : j # k => p[j] # p[k]

\* bfs has returned a path of three or more coordinates
C4_Witness ==
    /\ BfsReturned /\ returned # None
    /\ bfs_start # bfs_end
    /\ Len(unwrap(returned)) >= 3

----------------------------------------------------------------------------
(* C5 *)

\* the entry points that call mark_path
CallsMarkPath == entry \in {"main", "test_mark_path"}

\* C5: mark_path leaves every cell that holds 'i' or 'O' as it is, so that
\* once it has run on the path bfs returned, the cell at start still holds
\* 'i' and the cell at end still holds 'O'.
C5_MarkPathKeepsMarkers ==
    (CallsMarkPath /\ map # None)
        => /\ \A p \in Cells(Self) :
                 unwrap(loaded).grid[p[2]][p[1]] \in {"i", "O"}
                    => Self.grid[p[2]][p[1]] = unwrap(loaded).grid[p[2]][p[1]]
           /\ (pc \in {"mark", "print", "done", "exited"} /\ start # None /\ end # None)
                 => /\ get(Self, bfs_start[1], bfs_start[2]) = "i"
                    /\ get(Self, bfs_end[1], bfs_end[2]) = "O"

\* mark_path has run on a path of two or more coordinates and has written '.'
C5_Witness ==
    /\ entry = "main" /\ pc = "print"
    /\ result # None /\ returned # None
    /\ Len(marked_path) >= 2
    /\ mi = Len(marked_path)
    /\ \E p \in Cells(Self) : Self.grid[p[2]][p[1]] = "." /\ Self # unwrap(loaded)

----------------------------------------------------------------------------
(* C6 *)

HasCell(self, ch) == \E p \in Cells(self) : self.grid[p[2]][p[1]] = ch

\* the character that stdout holds for cell (x, y) of a grid of width w
Printed(x, y, w) == unwrap(stdout)[y * (w + 1) + x + 1]

\* C6: in main, when 'i' or 'O' is absent from the loaded grid, or bfs returns
\* None, no cell changes, what is printed is the loaded grid cell for cell, and
\* the exit status is 0; after a load that succeeded main always prints.
C6_UnmodifiedWhenNoPath ==
    (entry = "main" /\ loaded # None)
        => /\ pc # "panicked"
           /\ pc = "exited" => stdout # None /\ exit = Some(0)
           /\ (~HasCell(unwrap(loaded), "i") \/ ~HasCell(unwrap(loaded), "O")
                  \/ result = Some(None))
                => /\ map = loaded
                   /\ pc = "exited"
                        => LET m == unwrap(loaded)
                           IN  /\ Len(unwrap(stdout)) = m.height * (m.width + 1)
                               /\ \A p \in Cells(m) :
                                     Printed(p[1], p[2], m.width) = m.grid[p[2]][p[1]]
                               /\ \A y \in 0..(m.height - 1) :
                                     Printed(m.width, y, m.width) = "\n"

\* main has printed a grid of two rows that holds both markers, after bfs
\* returned None
C6_Witness ==
    /\ entry = "main" /\ pc = "exited"
    /\ result = Some(None)
    /\ stdout # None
    /\ unwrap(loaded).height >= 2

----------------------------------------------------------------------------
(* C7 *)

\* C7: with an argument count other than one, an unreadable file or a content
\* of zero lines, main exits with status 1 and has located nothing, searched
\* nothing, marked nothing and printed nothing; from_file returns an error in
\* the last two cases.
C7_ErrorsExitOne ==
    /\ (~file.readable \/ lines(file.content) = <<>>) => ~from_file(file).ok
    /\ (entry = "main"
          /\ (argsLen # 2 \/ ~file.readable \/ lines(file.content) = <<>>))
        => /\ pc \in {"main", "exited"}
           /\ pc = "exited" => exit = Some(1)
           /\ map = None /\ start = None /\ end = None
           /\ visited = <<>> /\ queue = <<>> /\ result = None
           /\ stdout = None

\* main has exited on a readable file of zero lines
C7_Witness ==
    /\ entry = "main" /\ pc = "exited"
    /\ argsLen = 2 /\ file.readable /\ file.content = <<>>
    /\ exit = Some(1)

----------------------------------------------------------------------------
(* C8 *)

\* a and b differ by a multiple of n
Congruent(a, b, n) ==
    \E k \in (-(MaxOffset + MaxDim + 1))..(MaxOffset + MaxDim + 1) : a - b = k * n

\* C8: normalize(x, y) returns (x', y') with 0 <= x' < width, 0 <= y' < height,
\* x' congruent to x modulo width and y' to y modulo height; so it is periodic
\* in x with period width and in y with period height, normalize(width, 0) is
\* (0, 0) and normalize(-1, 0) is (width - 1, 0).
C8_NormalizeInRange ==
    (entry = "normalize" /\ pc = "returned")
        => LET r == unwrap(nret)
           IN  /\ 0 <= r[1] /\ r[1] < Self.width
               /\ 0 <= r[2] /\ r[2] < Self.height
               /\ Congruent(r[1], nx, Self.width)
               /\ Congruent(r[2], ny, Self.height)
               /\ normalize(Self, nx + Self.width, ny) = r
               /\ normalize(Self, nx, ny + Self.height) = r
               /\ normalize(Self, Self.width, 0) = <<0, 0>>
               /\ normalize(Self, -1, 0) = <<Self.width - 1, 0>>

\* normalize has returned for a negative x and a y beyond the height, on a
\* Map of width three or more
C8_Witness ==
    /\ entry = "normalize" /\ pc = "returned"
    /\ nx < -Self.width /\ ny > Self.height
    /\ Self.width >= 3 /\ Self.height >= 2

----------------------------------------------------------------------------
(* C9 *)

\* r is Some of the first cell in row-major order that holds target, or None
\* when no cell holds it
IsFirstRowMajor(self, target, r) ==
    IF r = None THEN ~HasCell(self, target)
    ELSE LET f == unwrap(r)
         IN  /\ f \in Cells(self)
             /\ self.grid[f[2]][f[1]] = target
             /\ \A q \in Cells(self) :
                   self.grid[q[2]][q[1]] = target
                      => (f[2] < q[2] \/ (f[2] = q[2] /\ f[1] <= q[1]))

\* the entry points that call find, past their calls
Located ==
    /\ entry \in {"main", "test_no_path", "test_toroidal_path"}
    /\ map # None
    /\ pc \notin {"main", "find"}

\* C9: find returns the first cell in row-major order that holds its target,
\* and None exactly when no cell holds it; main searches from the first 'i'.
C9_FindRowMajorFirst ==
    Located
        => /\ IsFirstRowMajor(unwrap(loaded), "i", start)
           /\ IsFirstRowMajor(unwrap(loaded), "O", end)
           /\ queue # <<>> => visited[bfs_start[2]][bfs_start[1]]

\* main searches a grid that holds 'i' at (1, 0) and at (0, 1)
C9_Witness ==
    /\ entry = "main" /\ pc = "bfs_loop"
    /\ Self.width >= 2 /\ Self.height >= 2
    /\ get(Self, 1, 0) = "i" /\ get(Self, 0, 1) = "i" /\ get(Self, 0, 0) # "i"
    /\ start = Some(<<1, 0>>)

----------------------------------------------------------------------------
(* C10 *)

\* C10: on the Map of create_test_map, find('i') is (4, 1) and find('O') is
\* (3, 2), bfs((4, 1), (3, 2)) returns a path that is not empty, and after
\* mark_path cell (4, 0) holds '.', cell (4, 1) 'i' and cell (3, 2) 'O'.
C10_ScenarioA ==
    entry = "test_mark_path"
        => /\ find(unwrap(loaded), "i") = Some(<<4, 1>>)
           /\ find(unwrap(loaded), "O") = Some(<<3, 2>>)
           /\ unwrap(loaded).width = 7 /\ unwrap(loaded).height = 4
           /\ pc # "panicked"
           /\ pc \in {"mark", "done"} => returned # None /\ Len(marked_path) > 0
           /\ pc = "done" => /\ get(Self, 4, 0) = "."
                             /\ get(Self, 4, 1) = "i"
                             /\ get(Self, 3, 2) = "O"

\* test_mark_path has reached its assertions
C10_Witness ==
    /\ entry = "test_mark_path" /\ pc = "done"
    /\ mi = Len(marked_path) /\ mi > 0

----------------------------------------------------------------------------
(* C11 *)

\* bfs has gone through all four directions of the dequeued cell
Expanded == pc = "bfs_loop" /\ cur # None

\* C11: adjacency wraps around both edges: once bfs has expanded a cell, each
\* of its four toroidal neighbours that is no wall is visited, the one across
\* the left or right edge and the one across the top or bottom edge included;
\* and on the Map of test_toroidal_path bfs(find('i'), find('O')) finds a path.
C11_ScenarioB ==
    /\ (map # None /\ Expanded)
         => \A q \in Neighbours(Self, unwrap(cur)) :
               ~IsWall(Self, q) => visited[q[2]][q[1]]
    /\ (entry = "test_toroidal_path" /\ pc = "done") => returned # None

\* test_toroidal_path has reached its assertion with a path whose first step
\* leaves column 0 for column width - 1
C11_Witness ==
    /\ entry = "test_toroidal_path" /\ pc = "done"
    /\ returned # None
    /\ IsWrapStep(Self, bfs_start, unwrap(returned)[1])

----------------------------------------------------------------------------
(* C12 *)

\* the largest member of a set of numbers that is not empty
Largest(S) == CHOOSE m \in S : \A n \in S : n <= m

\* C12: a load that succeeds on a text of n >= 1 lines gives height = n,
\* width = the length of the longest line, height rows of width cells each,
\* and in cell (x, y) the x-th character of line y when the line has one and
\* a space otherwise.
C12_LoadShape ==
    (entry = "main" /\ loaded # None)
        => LET m  == unwrap(loaded)
               ls == lines(file.content)
           IN  /\ Len(ls) >= 1
               /\ m.height = Len(ls)
               /\ m.width = Largest({Len(ls[k]) : k \in 1..Len(ls)})
               /\ DOMAIN m.grid = 0..(m.height - 1)
               /\ \A y \in 0..(m.height - 1) :
                     /\ DOMAIN m.grid[y] = 0..(m.width - 1)
                     /\ \A x \in 0..(m.width - 1) :
                           m.grid[y][x] = IF x < Len(ls[y + 1]) THEN ls[y + 1][x + 1]
                                          ELSE " "

----------------------------------------------------------------------------
(* C13 *)

\* C13: bfs(start, end) with start = end returns Some of the empty path, on
\* the first dequeue and before any neighbour is examined: start alone is
\* visited and no parent is recorded; mark_path on that path changes no cell.
C13_StartIsEnd ==
    (entry = "bfs" /\ bfs_start = bfs_end)
        => /\ pc \in {"bfs", "bfs_loop", "bfs_walk", "bfs_ret", "mark", "done"}
           /\ di = 0
           /\ result # None => returned = Some(<<>>)
           /\ visited # <<>>
                => \A p \in Cells(Self) :
                      /\ visited[p[2]][p[1]] <=> p = bfs_start
                      /\ parent[p[2]][p[1]] = None
           /\ pc # "bfs" => Len(queue) = (IF pc = "bfs_loop" THEN 1 ELSE 0)
           /\ mi = 0
           /\ map = loaded

\* mark_path has returned for the empty path of a start = end that has a
\* neighbour which is no wall
C13_Witness ==
    /\ entry = "bfs" /\ pc = "done"
    /\ bfs_start = bfs_end
    /\ returned = Some(<<>>)
    /\ \E q \in Neighbours(Self, bfs_start) : q # bfs_start /\ ~IsWall(Self, q)

----------------------------------------------------------------------------
(* C14 *)

\* the number of coordinates dequeued so far
Dequeued == Len(order) - Len(queue)

\* bfs is past the set-up of visited, parent and queue
BfsRunning == entry = "bfs" /\ pc \notin {"bfs"}

\* the state part of C14
C14_Frontier ==
    BfsRunning
        => /\ pc # "panicked"
           /\ \A j, k \in 1..Len(order) : j # k => order[j] # order[k]
           /\ \A k \in 1..Len(order) : visited[order[k][2]][order[k][1]]
           /\ queue = SubSeq(order, Dequeued + 1, Len(order))
           /\ order[1] = bfs_start
           /\ \A k \in 2..Len(order) :
                 LET c == order[k]
                     p == parent[c[2]][c[1]]
                 IN  /\ ~IsWall(Self, c)
                     /\ p # None
                     /\ IsToroidalStep(Self, unwrap(p), c)
                     /\ \E j \in 1..(k - 1) : order[j] = unwrap(p)
           /\ Dequeued <= Self.width * Self.height
           /\ (pc = "bfs_walk" /\ unwrap(current) # bfs_start)
                 => parent[unwrap(current)[2]][unwrap(current)[1]] # None

\* C14: during bfs every coordinate is enqueued at most once and is visited
\* when it is enqueued; every enqueued coordinate other than start is no wall
\* and has a parent that is one of its toroidal neighbours and was enqueued
\* earlier; at most width * height coordinates are dequeued; the backward walk
\* never meets a missing parent; and bfs always returns, a path or None.
C14_BoundedSearch == [](C14_Frontier) /\ <>(result # None)

\* bfs has dequeued every coordinate it enqueued, four or more, on a Map of
\* six or more cells, and has found end unreachable
C14_Witness ==
    /\ entry = "bfs" /\ pc = "bfs_ret"
    /\ returned = None
    /\ Len(order) >= 4
    /\ Dequeued = Len(order)
    /\ Self.width * Self.height >= 6

----------------------------------------------------------------------------
(* C15 *)

\* the toroidal neighbours of p below, right of, above and left of it, in
\* that order
NeighboursInOrder(self, p) ==
    <<<<p[1], (p[2] + 1) % self.height>>,
      <<(p[1] + 1) % self.width, p[2]>>,
      <<p[1], (p[2] + self.height - 1) % self.height>>,
      <<(p[1] + self.width - 1) % self.width, p[2]>>>>

\* the steps of bfs and of its caller that can be taken in this state
EnabledSteps ==
    {k \in 1..10 :
        \/ k = 1 /\ ENABLED bfs_init
        \/ k = 2 /\ ENABLED bfs_exhausted
        \/ k = 3 /\ ENABLED bfs_pop_end
        \/ k = 4 /\ ENABLED bfs_pop_expand
        \/ k = 5 /\ ENABLED bfs_neighbor
        \/ k = 6 /\ ENABLED bfs_walk
        \/ k = 7 /\ ENABLED bfs_return
        \/ k = 8 /\ ENABLED bfs_caller
        \/ k = 9 /\ ENABLED mark_path_step
        \/ k = 10 /\ ENABLED mark_path_return}

\* C15: when end is at distance d >= 1, the first coordinate of the returned
\* path is the first, in the order down, right, up, left, of the neighbours of
\* start that are no wall and from which end is at distance d - 1; and bfs is
\* deterministic: no state offers two different steps.
C15_TieBreak ==
    /\ Cardinality(EnabledSteps) <= 1
    /\ (BfsReturned /\ returned # None /\ bfs_start # bfs_end)
        => LET d == Len(unwrap(returned))
               n == NeighboursInOrder(Self, bfs_start)
               best == {k \in 1..4 :
                          /\ ~IsWall(Self, n[k])
                          /\ GraphDistance(Self, n[k], bfs_end) = Some(d - 1)}
           IN  /\ GraphDistance(Self, bfs_start, bfs_end) = Some(d)
               /\ best # {}
               /\ unwrap(returned)[1] = n[CHOOSE k \in best : \A j \in best : k <= j]

\* bfs has returned a path where two different neighbours of start are both
\* one step closer to end, and the path begins with the one to the right
C15_Witness ==
    /\ BfsReturned /\ returned # None /\ bfs_start # bfs_end
    /\ LET d == Len(unwrap(returned))
           n == NeighboursInOrder(Self, bfs_start)
       IN  /\ d >= 2
           /\ unwrap(returned)[1] = n[2]
           /\ \E k \in 3..4 :
                 /\ n[k] # n[2]
                 /\ ~IsWall(Self, n[k])
                 /\ GraphDistance(Self, n[k], bfs_end) = Some(d - 1)

----------------------------------------------------------------------------
(* C16 *)

\* p is one of the coordinates of the returned path
OnPath(p) == \E k \in 1..Len(marked_path) : marked_path[k] = p

\* C16: in a run of main that finds a path, the printed grid has the width
\* and height of the loaded grid; a cell on the returned path holds '.'
\* unless it held 'i' or 'O', which it keeps; every other cell is as loaded;
\* so the walls are the same cells before and after.
C16_OverlayFrame ==
    (entry = "main" /\ pc = "exited" /\ result # None /\ returned # None)
        => LET m == unwrap(loaded)
           IN  /\ stdout # None /\ exit = Some(0)
               /\ Self.width = m.width /\ Self.height = m.height
               /\ Len(unwrap(stdout)) = m.height * (m.width + 1)
               /\ \A y \in 0..(m.height - 1) : Printed(m.width, y, m.width) = "\n"
               /\ \A p \in Cells(m) :
                     LET before == m.grid[p[2]][p[1]]
                         after  == Printed(p[1], p[2], m.width)
                     IN  /\ after = Self.grid[p[2]][p[1]]
                         /\ after = IF OnPath(p) /\ before \notin {"i", "O"}
                                    THEN "." ELSE before
                         /\ (before = "#") <=> (after = "#")

\* main has printed a grid of two rows with '.' on a path of two or more
\* coordinates, next to a wall and a blank that are as loaded
C16_Witness ==
    /\ entry = "main" /\ pc = "exited"
    /\ result # None /\ returned # None
    /\ Len(marked_path) >= 2
    /\ unwrap(loaded).height >= 2
    /\ \E p \in Cells(Self) : ~OnPath(p) /\ Self.grid[p[2]][p[1]] = "#"
    /\ \E p \in Cells(Self) : OnPath(p) /\ Self.grid[p[2]][p[1]] = "."

=============================================================================
